---- MODULE Spec2Model ----
(***************************************************************************)
(* A model of the PDF ingestion and retrieval backend: the text utilities  *)
(* (clean_text, chunk_text, validate_chunk), PDFProcessor.process_pdf, the *)
(* upload route, and PineconeService's upsert and query.                   *)
(*                                                                         *)
(* A Python str is a sequence of characters; a character is a one-element  *)
(* TLA+ string, except the two characters that have no printable form,     *)
(* which are named: "NL" is the newline and "NUL" is the control character *)
(* U+0000.                                                                 *)
(***************************************************************************)
EXTENDS Integers, Sequences, FiniteSets, TLC

VARIABLES
    pc,             \* position of the operation being run
    text,           \* chunk_text / clean_text / validate_chunk: the str argument
    max_tokens,     \* chunk_text: argument
    overlap,        \* chunk_text: argument
    sentences,      \* chunk_text: the list re.split returned
    si,             \* chunk_text: index (1-based) of the next sentence of the for loop
    chunks,         \* chunk_text: the list of closed chunks
    current_chunk,  \* chunk_text: the running chunk
    closed,         \* history: the running chunk, untrimmed, as it was at each close
    groups,         \* history: for each closed chunk, the indices of the sentences appended to it
    curGroup,       \* history: the indices of the sentences appended to the running chunk
    min_length,     \* validate_chunk: argument
    out,            \* clean_text / validate_chunk: the value returned
    cfg,            \* config: [chunk_size, chunk_overlap] (CHUNK_SIZE, CHUNK_OVERLAP)
    upload,         \* the uploaded file: [filename, size, pages]
    pdf_chunks,     \* process_pdf: the list chunk_text returned
    processed_chunks, \* process_pdf: the list returned
    chunk_texts,    \* upload_pdf: the texts given to the embedding service
    index,          \* the vector index: a set of [id, values, metadata]
    dimension,      \* the dimension the index was created with
    next_id,        \* the number of identifiers drawn so far
    query,          \* the retrieval request: [query, top_k]
    results,        \* PineconeService.query: the list returned
    response,       \* the HTTP response of the last request
    calls,          \* the calls the last request made to its collaborators, in order
    backend,        \* the history store get_database selected: "sqlite" or "appwrite"
    sessions,       \* the stored sessions: a set of [id, updated_at]
    messages,       \* the stored messages: a set of [id, session_id, message_type, timestamp]
    now             \* the clock: the time of the last reading of datetime.now()

utilVars == <<text, max_tokens, overlap, sentences, si, chunks, current_chunk,
              closed, groups, curGroup, min_length, out>>

pdfVars == <<cfg, upload, pdf_chunks, processed_chunks>>

ragVars == <<chunk_texts, index, dimension, next_id, query, results, response, calls>>

dbVars == <<backend, sessions, messages, now>>

vars == <<pc, utilVars, pdfVars, ragVars, dbVars>>

(***************************************************************************)
(* Characters and strings                                                  *)
(***************************************************************************)

\* str.isspace / the regex class \s: the space and the newline
IsSpace(c) == c \in {" ", "NL"}

\* str.isprintable: the space is printable, the newline and U+0000 are not
IsPrintable(c) == c \notin {"NL", "NUL"}

\* the regex class [.!?]
IsPunct(c) == c \in {".", "!", "?"}

\* the value of a variable the running operation does not use
Unused == <<>>

\* the history-store variables while another operation runs
DbUnused ==
    /\ backend = Unused
    /\ sessions = Unused
    /\ messages = Unused
    /\ now = Unused

\* the service variables while a text utility runs
ServiceUnused ==
    /\ cfg = Unused
    /\ upload = Unused
    /\ pdf_chunks = Unused
    /\ processed_chunks = Unused
    /\ chunk_texts = Unused
    /\ index = Unused
    /\ dimension = Unused
    /\ next_id = Unused
    /\ query = Unused
    /\ results = Unused
    /\ response = Unused
    /\ calls = Unused
    /\ DbUnused

\* the text-utility variables while a service operation runs
UtilUnused ==
    /\ text = Unused
    /\ max_tokens = Unused
    /\ overlap = Unused
    /\ sentences = Unused
    /\ si = Unused
    /\ chunks = Unused
    /\ current_chunk = Unused
    /\ closed = Unused
    /\ groups = Unused
    /\ curGroup = Unused
    /\ min_length = Unused
    /\ out = Unused

Min(a, b) == IF a < b THEN a ELSE b

Max(a, b) == IF a > b THEN a ELSE b

\* the strings over alphabet of length at most n
Strings(alphabet, n) == UNION {[1..k -> alphabet] : k \in 0..n}

\* s[-n:] for n > 0
Tail_(s, n) == SubSeq(s, Max(1, Len(s) - n + 1), Len(s))

\* s[n:]
Drop(s, n) == SubSeq(s, n + 1, Len(s))

\* str.lstrip()
LStrip(s) ==
    LET nonws == {i \in 1..Len(s) : ~IsSpace(s[i])}
    IN  IF nonws = {} THEN <<>>
        ELSE SubSeq(s, CHOOSE i \in nonws : \A j \in nonws : i <= j, Len(s))

\* str.rstrip()
RStrip(s) ==
    LET nonws == {i \in 1..Len(s) : ~IsSpace(s[i])}
    IN  IF nonws = {} THEN <<>>
        ELSE SubSeq(s, 1, CHOOSE i \in nonws : \A j \in nonws : i >= j)

\* str.strip()
Strip(s) == LStrip(RStrip(s))

\* whether p is a prefix of s
IsPrefix(p, s) == Len(p) <= Len(s) /\ SubSeq(s, 1, Len(p)) = p

\* whether p is a suffix of s
IsSuffix(p, s) == Len(p) <= Len(s) /\ SubSeq(s, Len(s) - Len(p) + 1, Len(s)) = p

RECURSIVE Flatten(_)
\* the concatenation of a sequence of sequences
Flatten(ss) == IF ss = <<>> THEN <<>> ELSE Head(ss) \o Flatten(Tail(ss))

(***************************************************************************)
(* utils/text_utils.py                                                     *)
(***************************************************************************)

\* re.sub(r'\s+', ' ', text): every maximal run of whitespace becomes one space
SubSpaces(s) ==
    LET marked == [i \in 1..Len(s) |->
                      IF ~IsSpace(s[i]) THEN s[i]
                      ELSE IF i < Len(s) /\ IsSpace(s[i + 1]) THEN "" ELSE " "]
        Kept(ch) == ch # ""
    IN  SelectSeq(marked, Kept)

\* "".join(ch for ch in text if ch.isprintable())
KeepPrintable(s) == SelectSeq(s, IsPrintable)

\* clean_text: collapse whitespace, then drop the non-printable, then strip
clean_text(t) == Strip(KeepPrintable(SubSpaces(t)))

\* the end of the whitespace run that starts at i: the first index past it
RunEnd(s, i) ==
    LET later == {j \in i..Len(s) : ~IsSpace(s[j])}
    IN  IF later = {} THEN Len(s) + 1
        ELSE CHOOSE j \in later : \A k \in later : j <= k

RECURSIVE SplitFrom(_, _)
\* the pieces of s from index start on: a piece ends where a whitespace run
\* begins right after a '.', '!' or '?'
SplitFrom(s, start) ==
    LET cuts == {i \in start..Len(s) : IsSpace(s[i]) /\ i > 1 /\ IsPunct(s[i - 1])}
    IN  IF cuts = {} THEN <<SubSeq(s, start, Len(s))>>
        ELSE LET i == CHOOSE c \in cuts : \A d \in cuts : c <= d
             IN  <<SubSeq(s, start, i - 1)>> \o SplitFrom(s, RunEnd(s, i))

\* re.split(r'(?<=[.!?])\s+', text)
SplitSentences(s) == SplitFrom(s, 1)

validate_chunk_NoStrip(chunk, minlen) == Len(chunk) >= minlen

\* validate_chunk
validate_chunk(chunk, minlen) == Len(Strip(chunk)) >= minlen

\* characters per token (max_chars = max_tokens * 4, overlap_chars = overlap * 4)
CharsPerToken == 4

MaxChars(mt) == mt * CharsPerToken

OverlapChars(ov) == ov * CharsPerToken

\* chunk_text before the loop
ChunkStart == [chunks |-> <<>>, current_chunk |-> <<>>]

\* ChunkStep with the whole closed chunk, not its tail, as the overlap seed
ChunkStep_WholeOverlap(st, sentence, max_chars, overlap_chars) ==
    IF Len(st.current_chunk) + Len(sentence) > max_chars /\ st.current_chunk # <<>>
    THEN [chunks |-> Append(st.chunks, Strip(st.current_chunk)),
          current_chunk |->
              IF overlap_chars > 0 /\ Len(st.current_chunk) > overlap_chars
              THEN st.current_chunk \o <<" ">> \o sentence
              ELSE sentence]
    ELSE [chunks |-> st.chunks,
          current_chunk |->
              IF st.current_chunk # <<>>
              THEN st.current_chunk \o <<" ">> \o sentence
              ELSE sentence]

\* ChunkStep with the head of the closed chunk, not its tail, as the overlap seed
ChunkStep_HeadOverlap(st, sentence, max_chars, overlap_chars) ==
    IF Len(st.current_chunk) + Len(sentence) > max_chars /\ st.current_chunk # <<>>
    THEN [chunks |-> Append(st.chunks, Strip(st.current_chunk)),
          current_chunk |->
              IF overlap_chars > 0 /\ Len(st.current_chunk) > overlap_chars
              THEN SubSeq(st.current_chunk, 1, overlap_chars) \o <<" ">> \o sentence
              ELSE sentence]
    ELSE [chunks |-> st.chunks,
          current_chunk |->
              IF st.current_chunk # <<>>
              THEN st.current_chunk \o <<" ">> \o sentence
              ELSE sentence]

\* ChunkStep that seeds the new chunk with the overlap and forgets the sentence
ChunkStep_DropTrigger(st, sentence, max_chars, overlap_chars) ==
    IF Len(st.current_chunk) + Len(sentence) > max_chars /\ st.current_chunk # <<>>
    THEN [chunks |-> Append(st.chunks, Strip(st.current_chunk)),
          current_chunk |->
              IF overlap_chars > 0 /\ Len(st.current_chunk) > overlap_chars
              THEN Tail_(st.current_chunk, overlap_chars)
              ELSE sentence]
    ELSE [chunks |-> st.chunks,
          current_chunk |->
              IF st.current_chunk # <<>>
              THEN st.current_chunk \o <<" ">> \o sentence
              ELSE sentence]

\* ChunkStep that compares the sentence alone, not the running chunk plus the
\* sentence, with max_chars
ChunkStep_SentenceOnly(st, sentence, max_chars, overlap_chars) ==
    IF Len(sentence) > max_chars /\ st.current_chunk # <<>>
    THEN [chunks |-> Append(st.chunks, Strip(st.current_chunk)),
          current_chunk |->
              IF overlap_chars > 0 /\ Len(st.current_chunk) > overlap_chars
              THEN Tail_(st.current_chunk, overlap_chars) \o <<" ">> \o sentence
              ELSE sentence]
    ELSE [chunks |-> st.chunks,
          current_chunk |->
              IF st.current_chunk # <<>>
              THEN st.current_chunk \o <<" ">> \o sentence
              ELSE sentence]

\* one iteration of chunk_text's for loop on the loop state st
ChunkStep(st, sentence, max_chars, overlap_chars) ==
    IF Len(st.current_chunk) + Len(sentence) > max_chars /\ st.current_chunk # <<>>
    THEN [chunks |-> Append(st.chunks, Strip(st.current_chunk)),
          current_chunk |->
              IF overlap_chars > 0 /\ Len(st.current_chunk) > overlap_chars
              THEN Tail_(st.current_chunk, overlap_chars) \o <<" ">> \o sentence
              ELSE sentence]
    ELSE [chunks |-> st.chunks,
          current_chunk |->
              IF st.current_chunk # <<>>
              THEN st.current_chunk \o <<" ">> \o sentence
              ELSE sentence]

\* chunk_text after the loop: the last chunk is added unless it is blank
ChunkFlush(st) ==
    IF Strip(st.current_chunk) # <<>>
    THEN Append(st.chunks, Strip(st.current_chunk))
    ELSE st.chunks

RECURSIVE ChunkLoop(_, _, _, _)
\* chunk_text's for loop over the sentences ss
ChunkLoop(st, ss, max_chars, overlap_chars) ==
    IF ss = <<>> THEN st
    ELSE ChunkLoop(ChunkStep(st, Head(ss), max_chars, overlap_chars), Tail(ss),
                   max_chars, overlap_chars)

\* chunk_text
chunk_text(t, mt, ov) ==
    ChunkFlush(ChunkLoop(ChunkStart, SplitSentences(t), MaxChars(mt), OverlapChars(ov)))

(***************************************************************************)
(* chunk_text, run one loop iteration at a time                            *)
(***************************************************************************)

\* the longest text given to chunk_text
MaxTextLen == 10

\* the characters of the texts given to chunk_text: a letter, a sentence end, a space
ChunkAlphabet == {"a", ".", " "}

\* the values of max_tokens and of overlap given to chunk_text
TokenChoices == {1, 2}

OverlapChoices == {0, 1}

max_chars == MaxChars(max_tokens)

overlap_chars == OverlapChars(overlap)

ChunkInit ==
    /\ pc = "chunk_begin"
    /\ text \in Strings(ChunkAlphabet, MaxTextLen)
    /\ max_tokens \in TokenChoices
    /\ overlap \in OverlapChoices
    /\ sentences = <<>>
    /\ si = 1
    /\ chunks = <<>>
    /\ current_chunk = <<>>
    /\ closed = <<>>
    /\ groups = <<>>
    /\ curGroup = <<>>
    /\ min_length = Unused
    /\ out = Unused
    /\ ServiceUnused

\* chunk_text up to the for loop: the budgets, the split, the empty accumulators
ChunkBegin ==
    /\ pc = "chunk_begin"
    /\ sentences' = SplitSentences(text)
    /\ si' = 1
    /\ chunks' = ChunkStart.chunks
    /\ current_chunk' = ChunkStart.current_chunk
    /\ pc' = "chunk_loop"
    /\ UNCHANGED <<dbVars, text, max_tokens, overlap, closed, groups, curGroup, min_length, out,
                   pdfVars, ragVars>>

\* one iteration of the for loop, on sentences[si]
ChunkIterate ==
    /\ pc = "chunk_loop"
    /\ si <= Len(sentences)
    /\ LET st == ChunkStep([chunks |-> chunks, current_chunk |-> current_chunk],
                           sentences[si], max_chars, overlap_chars)
           closes == Len(st.chunks) > Len(chunks)
       IN  /\ chunks' = st.chunks
           /\ current_chunk' = st.current_chunk
           /\ closed' = IF closes THEN Append(closed, current_chunk) ELSE closed
           /\ groups' = IF closes THEN Append(groups, curGroup) ELSE groups
           /\ curGroup' = IF closes THEN <<si>> ELSE Append(curGroup, si)
    /\ si' = si + 1
    /\ UNCHANGED <<dbVars, pc, text, max_tokens, overlap, sentences, min_length, out,
                   pdfVars, ragVars>>

\* after the loop: flush the running chunk and return
ChunkFinish ==
    /\ pc = "chunk_loop"
    /\ si > Len(sentences)
    /\ LET st == [chunks |-> chunks, current_chunk |-> current_chunk]
       IN  /\ chunks' = ChunkFlush(st)
           /\ groups' = IF Len(ChunkFlush(st)) > Len(chunks)
                        THEN Append(groups, curGroup) ELSE groups
    /\ pc' = "done"
    /\ UNCHANGED <<dbVars, text, max_tokens, overlap, sentences, si, current_chunk, closed,
                   curGroup, min_length, out,
                   pdfVars, ragVars>>

ChunkNext == ChunkBegin \/ ChunkIterate \/ ChunkFinish

SpecChunk == ChunkInit /\ [][ChunkNext]_vars

\* whether chunk i was seeded with the tail of the chunk closed before it
Seeded(i) == i > 1 /\ overlap_chars > 0 /\ Len(closed[i - 1]) > overlap_chars

\* the overlap seed of chunk i as it stands in the trimmed chunk
SeedOf(i) == LStrip(Tail_(closed[i - 1], overlap_chars))

\* the number of characters of chunk i that are its overlap prefix: the seed and
\* the space that joins it to the triggering sentence
PrefixLen(i) == IF Seeded(i) THEN Min(Len(SeedOf(i)) + 1, Len(chunks[i])) ELSE 0

\* chunk i without its overlap prefix
Remainder(i) == Drop(chunks[i], PrefixLen(i))

NonBlank(s) == Strip(s) # <<>>

\* the sentences of the input as a chunk can show them: trimmed, the blank ones left out
InputSentences == SelectSeq([k \in 1..Len(sentences) |-> Strip(sentences[k])], NonBlank)

\* the sentences read back from the chunks, overlap prefixes removed
OutputSentences ==
    SelectSeq(Flatten([i \in 1..Len(chunks) |-> SplitSentences(Remainder(i))]), NonBlank)

NoLongSentence == \A k \in 1..Len(sentences) : Len(sentences[k]) <= max_chars

\* C3 as stated: with no sentence longer than max_chars, every chunk has at most
\* max_chars + overlap_chars characters
C3_Original ==
    (pc = "done" /\ NoLongSentence)
        => \A i \in 1..Len(chunks) : Len(chunks[i]) <= max_chars + overlap_chars

\* C3 amended: with no sentence longer than max_chars, every chunk has at most
\* max_chars + overlap_chars + 1 characters (the joining space is one more)
C3_SizeBound ==
    (pc = "done" /\ NoLongSentence)
        => \A i \in 1..Len(chunks) : Len(chunks[i]) <= max_chars + overlap_chars + 1

C3_Witness ==
    /\ pc = "done"
    /\ NoLongSentence
    /\ \E i \in 1..Len(chunks) :
           Seeded(i) /\ Len(chunks[i]) = max_chars + overlap_chars + 1

\* C4 as stated: with overlap > 0 and at least 2 chunks, every chunk i+1 begins
\* with a non-empty suffix of chunk i of at most overlap_chars characters
C4_Original ==
    (pc = "done" /\ overlap > 0 /\ Len(chunks) >= 2)
        => \A i \in 1..(Len(chunks) - 1) :
               \E n \in 1..Min(overlap_chars, Len(chunks[i])) :
                   IsPrefix(Tail_(chunks[i], n), chunks[i + 1])

\* C4 amended: with overlap > 0, chunk i+1 begins with a non-empty suffix of
\* chunk i (the last overlap_chars characters of the running chunk closed as
\* chunk i, leading whitespace trimmed) when that running chunk was longer than
\* overlap_chars; otherwise chunk i+1 begins with the sentence that closed chunk i
C4_OverlapPresence ==
    (pc = "done" /\ overlap > 0 /\ Len(chunks) >= 2)
        => \A i \in 1..(Len(chunks) - 1) :
               IF Len(closed[i]) > overlap_chars
               THEN /\ SeedOf(i + 1) # <<>>
                    /\ Len(SeedOf(i + 1)) <= overlap_chars
                    /\ IsSuffix(SeedOf(i + 1), chunks[i])
                    /\ IsPrefix(SeedOf(i + 1), chunks[i + 1])
               ELSE IsPrefix(RStrip(sentences[Head(groups[i + 1])]), chunks[i + 1])

C4_Witness ==
    /\ pc = "done"
    /\ overlap > 0
    /\ Len(chunks) >= 3
    /\ \E i \in 1..(Len(chunks) - 1) : Len(closed[i]) > overlap_chars
    /\ \E i \in 1..(Len(chunks) - 1) : Len(closed[i]) <= overlap_chars

\* C5: the chunks, their overlap prefixes removed, read in output order, hold the
\* input's sentences in the input's order, each exactly once
C5_Coverage == pc = "done" => OutputSentences = InputSentences

C5_Witness ==
    /\ pc = "done"
    /\ Len(chunks) >= 2
    /\ Len(InputSentences) >= 3
    /\ \E i \in 1..Len(chunks) : Seeded(i)
    /\ OutputSentences = InputSentences

\* C7: a sentence longer than max_chars stands whole in exactly one chunk, and
\* that chunk holds nothing else but its overlap prefix
C7_LongSentenceAlone ==
    pc = "done"
        => \A k \in 1..Len(sentences) :
               (Len(sentences[k]) > max_chars /\ NonBlank(sentences[k]))
                   => /\ Cardinality({i \in 1..Len(chunks) :
                                         \E j \in 1..Len(groups[i]) : groups[i][j] = k}) = 1
                      /\ \E i \in 1..Len(chunks) :
                             /\ groups[i] = <<k>>
                             /\ Remainder(i) = Strip(sentences[k])

C7_Witness ==
    /\ pc = "done"
    /\ \E k \in 2..(Len(sentences) - 1) :
           /\ Len(sentences[k]) > max_chars
           /\ \E i \in 2..(Len(chunks) - 1) : groups[i] = <<k>> /\ Seeded(i + 1)

(***************************************************************************)
(* clean_text, applied to a text and then to its own result                *)
(***************************************************************************)

\* the longest text given to clean_text
MaxCleanLen == 5

\* a letter, the space, a whitespace character that is not printable, and a
\* control character that is neither whitespace nor printable
CleanAlphabet == {"a", " ", "NL", "NUL"}

CleanInit ==
    /\ pc = "clean_begin"
    /\ text \in Strings(CleanAlphabet, MaxCleanLen)
    /\ out = Unused
    /\ max_tokens = Unused
    /\ overlap = Unused
    /\ sentences = Unused
    /\ si = Unused
    /\ chunks = Unused
    /\ current_chunk = Unused
    /\ closed = Unused
    /\ groups = Unused
    /\ curGroup = Unused
    /\ min_length = Unused
    /\ ServiceUnused

\* out = clean_text(text)
Clean ==
    /\ pc = "clean_begin"
    /\ out' = clean_text(text)
    /\ pc' = "cleaned"
    /\ UNCHANGED <<dbVars, text, max_tokens, overlap, sentences, si, chunks, current_chunk,
                   closed, groups, curGroup, min_length,
                   pdfVars, ragVars>>

\* clean_text applied to what clean_text returned
CleanAgain ==
    /\ pc = "cleaned"
    /\ text' = out
    /\ out' = clean_text(out)
    /\ pc' = "done"
    /\ UNCHANGED <<dbVars, max_tokens, overlap, sentences, si, chunks, current_chunk,
                   closed, groups, curGroup, min_length,
                   pdfVars, ragVars>>

CleanNext == Clean \/ CleanAgain

SpecClean == CleanInit /\ [][CleanNext]_vars

\* C6: clean_text is idempotent: applied to a text it returned, it returns that text
C6_Idempotent == pc = "done" => out = text

(***************************************************************************)
(* validate_chunk                                                          *)
(***************************************************************************)

\* the longest chunk given to validate_chunk
MaxChunkLen == 12

\* validate_chunk's default min_length
DefaultMinLength == 10

ValidateAlphabet == {"a", " "}

MinLengthChoices == {0, 3, DefaultMinLength}

ValidateInit ==
    /\ pc = "validate_begin"
    /\ text \in Strings(ValidateAlphabet, MaxChunkLen)
    /\ min_length \in MinLengthChoices
    /\ out = Unused
    /\ max_tokens = Unused
    /\ overlap = Unused
    /\ sentences = Unused
    /\ si = Unused
    /\ chunks = Unused
    /\ current_chunk = Unused
    /\ closed = Unused
    /\ groups = Unused
    /\ curGroup = Unused
    /\ ServiceUnused

\* out = validate_chunk(text, min_length)
Validate ==
    /\ pc = "validate_begin"
    /\ out' = validate_chunk(text, min_length)
    /\ pc' = "done"
    /\ UNCHANGED <<dbVars, text, max_tokens, overlap, sentences, si, chunks, current_chunk,
                   closed, groups, curGroup, min_length,
                   pdfVars, ragVars>>

ValidateNext == Validate

SpecValidate == ValidateInit /\ [][ValidateNext]_vars

\* the positions of s from its first to its last non-whitespace character
Core(s) ==
    {i \in 1..Len(s) : /\ \E j \in 1..i : ~IsSpace(s[j])
                       /\ \E k \in i..Len(s) : ~IsSpace(s[k])}

\* C8: validate_chunk returns true exactly when the chunk, leading and trailing
\* whitespace not counted, has at least min_length characters; with the default
\* 10, nine characters are rejected and ten accepted, however they are padded
C8_ValidateIff ==
    pc = "done"
        => /\ out = (Cardinality(Core(text)) >= min_length)
           /\ (min_length = DefaultMinLength /\ Strip(text) = [i \in 1..9 |-> "a"])
                  => out = FALSE
           /\ (min_length = DefaultMinLength /\ Strip(text) = [i \in 1..10 |-> "a"])
                  => out = TRUE

C8_Witness ==
    /\ pc = "done"
    /\ min_length = DefaultMinLength
    /\ Len(text) >= DefaultMinLength
    /\ Strip(text) = [i \in 1..9 |-> "a"]
    /\ out = FALSE

(***************************************************************************)
(* services/pdf_processor.py                                               *)
(***************************************************************************)

\* n times the character c
Rep(c, n) == [i \in 1..n |-> c]

\* the decimal digit of a page number (documents here have fewer than 10 pages)
Digit(n) == <<"1", "2", "3", "4", "5", "6", "7", "8", "9">>[n]

\* f"\n\n--- Page {page_num + 1} ---\n\n", for the page at 1-based position n
PageHeader(n) ==
    <<"NL", "NL", "-", "-", "-", " ", "P", "a", "g", "e", " ", Digit(n), " ",
      "-", "-", "-", "NL", "NL">>

\* extract_text_from_pdf: pages is the list of the pages' texts, empty for a
\* page with no text or whose extraction failed
extract_text_from_pdf(pages) ==
    Strip(Flatten([n \in 1..Len(pages) |->
                      IF pages[n] # <<>> THEN PageHeader(n) \o pages[n] ELSE <<>>]))

\* process_pdf calls OCR when the extracted text has fewer characters than this
OcrThreshold == 50

\* process_pdf takes the OCR text when it has more characters than this
OcrMinLength == 20

\* process_pdf: whether the OCR fallback is tried
NeedsOcr(raw_text) == raw_text = <<>> \/ Len(Strip(raw_text)) < OcrThreshold

\* process_pdf: the text that is cleaned and chunked, empty when process_pdf
\* returns [] before chunking; ocr_text is what ocr_pdf_page returned
TextToChunk(raw_text, ocr_text) ==
    IF NeedsOcr(raw_text)
    THEN IF ocr_text # <<>> /\ Len(Strip(ocr_text)) > OcrMinLength
         THEN ocr_text
         ELSE <<>>
    ELSE raw_text

\* process_pdf: clean_text, then chunk_text with the configured budgets
ChunksOf(t, c) ==
    IF t = <<>> THEN <<>>
    ELSE chunk_text(clean_text(t), c.chunk_size, c.chunk_overlap)

\* the record process_pdf builds for the chunk at 0-based position idx
ChunkRecord(chunk, idx, total, filename) ==
    [text |-> chunk,
     metadata |-> [filename |-> filename, chunk_index |-> idx,
                   total_chunks |-> total, source |-> "pdf"]]

IsValidRecord(r) == validate_chunk(r.text, DefaultMinLength)

\* Assemble without the validate_chunk test
Assemble_NoValidation(cs, filename) ==
    [i \in 1..Len(cs) |-> ChunkRecord(cs[i], i - 1, Len(cs), filename)]

\* Assemble with total_chunks counting the chunks that pass validate_chunk
Assemble_ValidTotal(cs, filename) ==
    LET all == [i \in 1..Len(cs) |-> ChunkRecord(cs[i], i - 1, Len(cs), filename)]
        valid == SelectSeq(all, IsValidRecord)
    IN  [j \in 1..Len(valid) |->
            ChunkRecord(valid[j].text, valid[j].metadata.chunk_index, Len(valid), filename)]

\* process_pdf: the records of the chunks that pass validate_chunk
Assemble(cs, filename) ==
    SelectSeq([i \in 1..Len(cs) |-> ChunkRecord(cs[i], i - 1, Len(cs), filename)],
              IsValidRecord)

\* process_pdf, given what extraction and OCR returned
process_pdf(raw_text, ocr_text, filename, c) ==
    Assemble(ChunksOf(TextToChunk(raw_text, ocr_text), c), filename)

(***************************************************************************)
(* process_pdf on a document                                               *)
(***************************************************************************)

\* the most pages of a document
MaxPages == 2

\* three sentences: of 3, of 12 and of 36 characters
SentS == <<"H", "i", ".">>

SentM == Rep("a", 11) \o <<".">>

SentL == Rep("a", 35) \o <<".">>

\* the texts of a page: none, one sentence, several sentences, line breaks and a
\* control character between sentences
PageTexts ==
    {<<>>, SentS, SentM, SentL,
     SentS \o <<" ">> \o SentM,
     SentM \o <<"NL">> \o SentS,
     SentM \o <<" ">> \o SentS \o <<" ">> \o SentL,
     SentL \o <<" ", "NUL", " ">> \o SentS \o <<"NL", "NL">> \o SentM}

\* what ocr_pdf_page returns: nothing (also on any failure), a text too short
\* to be taken, a text that is taken
OcrOutcomes == {<<>>, SentM, SentS \o <<" ">> \o SentL, SentM \o <<" ">> \o SentM}

\* CHUNK_SIZE and CHUNK_OVERLAP, read from the environment
ConfigChoices == [chunk_size : {1, 9}, chunk_overlap : {0, 1}]

\* the names of uploaded files
NameA == <<"a", ".", "p", "d", "f">>

NameB == <<"b", ".", "p", "d", "f">>

NameTxt == <<"a", ".", "t", "x", "t">>

Filenames == {NameA}

Documents == UNION {[1..n -> PageTexts] : n \in 0..MaxPages}

PdfInit ==
    /\ pc = "pdf_begin"
    /\ cfg \in ConfigChoices
    /\ upload \in [filename : Filenames, pages : Documents]
    /\ pdf_chunks = <<>>
    /\ processed_chunks = <<>>
    /\ chunk_texts = Unused
    /\ index = Unused
    /\ dimension = Unused
    /\ next_id = Unused
    /\ query = Unused
    /\ results = Unused
    /\ response = Unused
    /\ calls = Unused
    /\ DbUnused
    /\ UtilUnused

\* process_pdf returns
PdfProcess ==
    /\ pc = "pdf_begin"
    /\ LET raw_text == extract_text_from_pdf(upload.pages)
       IN  \E ocr_text \in IF NeedsOcr(raw_text) THEN OcrOutcomes ELSE {<<>>} :
               /\ pdf_chunks' = ChunksOf(TextToChunk(raw_text, ocr_text), cfg)
               /\ processed_chunks' = process_pdf(raw_text, ocr_text, upload.filename, cfg)
    /\ pc' = "pdf_done"
    /\ UNCHANGED <<dbVars, cfg, upload, utilVars, ragVars>>

\* extract_text_from_pdf raises: process_pdf raises
PdfExtractFails ==
    /\ pc = "pdf_begin"
    /\ pc' = "pdf_raised"
    /\ UNCHANGED <<dbVars, utilVars, pdfVars, ragVars>>

PdfNext == PdfProcess \/ PdfExtractFails

SpecPdf == PdfInit /\ [][PdfNext]_vars

\* C1: the chunk_index values of the records process_pdf returns are, in
\* emission order, 0, 1, ..., N-1
C1_IndexContiguous ==
    pc = "pdf_done"
        => \A j \in 1..Len(processed_chunks) :
               processed_chunks[j].metadata.chunk_index = j - 1

\* C2: total_chunks of every record process_pdf returns is the number of
\* records returned
C2_TotalIsValidCount ==
    pc = "pdf_done"
        => \A j \in 1..Len(processed_chunks) :
               processed_chunks[j].metadata.total_chunks = Len(processed_chunks)

(***************************************************************************)
(* services/pinecone_service.py, routes/upload.py, routes/query.py         *)
(***************************************************************************)

\* the dimension of the index (config.EMBEDDING_DIMENSION is 384; the vectors
\* here have 2 components)
EMBEDDING_DIMENSION == 2

\* the vectors of the index's dimension; all have the same norm
Vectors == [1..EMBEDDING_DIMENSION -> {-1, 1}]

RECURSIVE DotFrom(_, _, _)
DotFrom(a, b, i) == IF i > Len(a) THEN 0 ELSE a[i] * b[i] + DotFrom(a, b, i + 1)

\* the similarity the index ranks by: the cosine of two vectors of Vectors is
\* their dot product over EMBEDDING_DIMENSION; the score is the dot product
Score(a, b) == DotFrom(a, b, 1)

\* upload_pdf: chunk['metadata'].copy() with metadata['text'] = chunk['text']
WithText(r) ==
    [filename |-> r.metadata.filename, chunk_index |-> r.metadata.chunk_index,
     total_chunks |-> r.metadata.total_chunks, source |-> r.metadata.source,
     text |-> r.text]

\* upsert_embeddings that leaves out the last embedding
BuildVectors_DropLast(embeddings, metadata_list, first) ==
    [i \in 1..(Len(embeddings) - 1) |->
        [id |-> first + i, values |-> embeddings[i], metadata |-> metadata_list[i]]]

\* upsert_embeddings that names a vector after its position in the batch
BuildVectors_PositionIds(embeddings, metadata_list, first) ==
    [i \in 1..Len(embeddings) |->
        [id |-> i, values |-> embeddings[i], metadata |-> metadata_list[i]]]

\* upsert_embeddings: the vectors built from the embeddings and the metadata,
\* the i-th with the i-th identifier drawn after the first drawn identifiers
BuildVectors(embeddings, metadata_list, first) ==
    [i \in 1..Len(embeddings) |->
        [id |-> first + i, values |-> embeddings[i], metadata |-> metadata_list[i]]]

\* the index after index.upsert(vectors): a record replaces the one with its id
IndexUpsert(ix, vectors) ==
    {r \in ix : \A i \in 1..Len(vectors) : vectors[i].id # r.id}
        \cup {vectors[i] : i \in 1..Len(vectors)}

\* filter_dict = None: no field is filtered on
NoFilter == <<>>

\* whether a record's metadata passes the filter: an exact match on every field
\* of the filter
Passes(r, filter_dict) ==
    \A k \in DOMAIN filter_dict : r.metadata[k] = filter_dict[k]

\* what index.query(vector, top_k, include_metadata, filter) may return: the
\* top_k records that pass the filter, highest score first, ties in any order
IndexMatches(ix, vector, top_k, filter_dict) ==
    LET cands == {r \in ix : Passes(r, filter_dict)}
        n == Min(top_k, Cardinality(cands))
    IN  {[i \in 1..n |-> [id |-> m[i].id, score |-> Score(vector, m[i].values),
                          metadata |-> m[i].metadata]] :
            m \in {f \in [1..n -> cands] :
                      /\ \A i, j \in 1..n : i < j =>
                             /\ f[i] # f[j]
                             /\ Score(vector, f[i].values) >= Score(vector, f[j].values)
                      /\ \A r \in cands :
                             (\A i \in 1..n : f[i] # r) =>
                                 \A i \in 1..n :
                                     Score(vector, r.values) <= Score(vector, f[i].values)}}

\* PineconeService.query: the formatting of the matches
FormatResults(matches) ==
    [i \in 1..Len(matches) |->
        [id |-> matches[i].id, score |-> matches[i].score,
         text |-> matches[i].metadata.text, metadata |-> matches[i].metadata]]

\* retrieval's default top_k (config.DEFAULT_TOP_K, and the default of the
\* top_k parameters)
DEFAULT_TOP_K == 5

\* PineconeService.query that asks the index for the default number of matches
PineconeQuery_DefaultTopK(ix, query_embedding, top_k, filter_dict) ==
    {FormatResults(m) : m \in IndexMatches(ix, query_embedding, DEFAULT_TOP_K, filter_dict)}

\* PineconeService.query that asks the index without the filter
PineconeQuery_NoFilter(ix, query_embedding, top_k, filter_dict) ==
    {FormatResults(m) : m \in IndexMatches(ix, query_embedding, top_k, NoFilter)}

\* PineconeService.query when the index answers: the lists it may return
PineconeQuery(ix, query_embedding, top_k, filter_dict) ==
    {FormatResults(m) : m \in IndexMatches(ix, query_embedding, top_k, filter_dict)}

\* the calls a handler made to its collaborators when it runs the steps in
\* order and the step failing raises: every step up to the failing one
Trace(steps, failing) ==
    LET k == IF \E i \in 1..Len(steps) : steps[i] = failing
             THEN CHOOSE i \in 1..Len(steps) : steps[i] = failing
             ELSE Len(steps)
    IN  [i \in 1..k |-> [call |-> steps[i], raised |-> steps[i] = failing]]

\* upload_pdf accepts files of at most this many bytes
MAX_FILE_SIZE == 31457280

\* an upload_pdf that does not look at the size of the file
Rejected_SizeUnchecked(file) ==
    \/ file.filename = <<>>
    \/ ~IsSuffix(<<".", "p", "d", "f">>, file.filename)

\* upload_pdf: whether the file is rejected before anything is done with it
Rejected(file) ==
    \/ file.filename = <<>>
    \/ ~IsSuffix(<<".", "p", "d", "f">>, file.filename)
    \/ file.size > MAX_FILE_SIZE

\* QueryRequest: top_k is at least 1 and at most 20, query has at least 1 character
TopKMin == 1

TopKMax == 20

ValidQuery(req) == Len(req.query) >= 1 /\ req.top_k >= TopKMin /\ req.top_k <= TopKMax

\* query_knowledge_base that answers 200 whatever was raised
QueryStatus_Swallow(req, fail) == IF ~ValidQuery(req) THEN 422 ELSE 200

\* POST /query: the status of the response; fail is the step that raised
QueryStatus(req, fail) ==
    IF ~ValidQuery(req) THEN 422
    ELSE IF fail # "none" THEN 500
    ELSE 200

(***************************************************************************)
(* The service: uploads and queries on one index                           *)
(***************************************************************************)

\* the most records the index holds
MaxRecords == 2

\* the uploaded documents: no page, one sentence, three sentences of which the
\* middle one is short
ServiceDocuments ==
    {<<>>, <<SentL>>, <<SentM \o <<" ">> \o SentS \o <<" ">> \o SentL>>}

\* the uploaded files: PDF files of an accepted size, and one file of each
\* kind upload_pdf rejects (no name, not a PDF, too large)
ServiceFiles ==
    [filename : {NameA}, size : {1024}, pages : ServiceDocuments]
        \cup [filename : {<<>>, NameTxt, NameB}, size : {1024}, pages : {<<SentL>>}]
        \cup [filename : {NameA}, size : {MAX_FILE_SIZE + 1}, pages : {<<SentL>>}]

\* what ocr_pdf_page returns to the service: nothing, or a text too short to be
\* taken
ServiceOcrOutcomes == {<<>>, SentM}

\* the service's CHUNK_SIZE and CHUNK_OVERLAP: every sentence is a chunk
ServiceConfigs == {[chunk_size |-> 1, chunk_overlap |-> 0]}

\* the step of upload_pdf that raises, if any; "services" is a get_*_service
\* call (EmbeddingService.__init__ reads config.EMBEDDING_MODEL_NAME, which
\* config.py does not define: the route succeeds only where it is provided)
UploadFailures == {"none", "services", "save", "extract", "embed", "upsert"}

QueryRequests ==
    [query : {<<"q">>}, top_k : {0, 1, 2, 21}] \cup {[query |-> <<>>, top_k |-> 1]}

\* the step of a retrieval that raises, if any: a get_*_service call (the
\* index cannot be reached), the embedding of the query, index.query
QueryFailures == {"none", "services", "embed", "index"}

NoResponse == [op |-> "none", status |-> 0]

ServiceInit ==
    /\ pc = "serving"
    /\ cfg \in ServiceConfigs
    /\ upload = Unused
    /\ pdf_chunks = <<>>
    /\ processed_chunks = <<>>
    /\ chunk_texts = <<>>
    /\ index = {}
    /\ dimension = EMBEDDING_DIMENSION
    /\ next_id = 0
    /\ query = Unused
    /\ results = <<>>
    /\ response = NoResponse
    /\ calls = <<>>
    /\ DbUnused
    /\ UtilUnused

\* process_pdf on each file, configuration and OCR result of the service: the
\* list chunk_text returned and the list process_pdf returns
Processed ==
    {LET raw_text == extract_text_from_pdf(file.pages)
     IN  [cfg |-> c, file |-> file, ocr_text |-> ocr_text,
          needs_ocr |-> NeedsOcr(raw_text),
          chunks |-> ChunksOf(TextToChunk(raw_text, ocr_text), c),
          records |-> process_pdf(raw_text, ocr_text, file.filename, c)] :
        c \in ServiceConfigs, file \in ServiceFiles, ocr_text \in ServiceOcrOutcomes}

\* POST /upload-pdf, from the request to the response
UploadPdf ==
    /\ pc = "serving"
    /\ \E p \in Processed, fail \in UploadFailures :
         LET file == p.file
             recs == p.records
             texts == [i \in 1..Len(recs) |-> recs[i].text]
             metadata_list == [i \in 1..Len(recs) |-> WithText(recs[i])]
             processed == ~Rejected(file) /\ fail \notin {"services", "save", "extract"}
             embedded == processed /\ recs # <<>>
             upserted == embedded /\ fail # "embed"
             stored == upserted /\ fail # "upsert"
         IN  /\ p.cfg = cfg
             /\ p.needs_ocr \/ p.ocr_text = <<>>
             /\ stored => Cardinality(index) + Len(recs) <= MaxRecords
             /\ \E embeddings \in IF upserted THEN [1..Len(recs) -> Vectors]
                                              ELSE {<<>>} :
                  /\ index' = IF stored
                              THEN IndexUpsert(index,
                                       BuildVectors(embeddings, metadata_list, next_id))
                              ELSE index
             /\ upload' = file
             /\ pdf_chunks' = IF processed THEN p.chunks ELSE <<>>
             /\ processed_chunks' = IF processed THEN recs ELSE <<>>
             /\ chunk_texts' = IF embedded THEN texts ELSE <<>>
             /\ next_id' = IF stored THEN next_id + Len(recs) ELSE next_id
             /\ calls' =
                  IF Rejected(file) THEN <<>>
                  ELSE IF processed /\ recs = <<>>
                       THEN Trace(<<"services", "save", "extract">>, "none")
                  ELSE Trace(<<"services", "save", "extract", "embed", "upsert">>, fail)
             /\ response' =
                  IF Rejected(file) THEN [op |-> "upload", status |-> 400]
                  ELSE IF ~processed THEN [op |-> "upload", status |-> 500]
                  ELSE IF recs = <<>> THEN [op |-> "upload", status |-> 400]
                  ELSE IF ~stored THEN [op |-> "upload", status |-> 500]
                  ELSE [op |-> "upload", status |-> 200,
                        pdf_id |-> file.filename, filename |-> file.filename,
                        number_of_chunks |-> Len(recs),
                        chunks_processed |-> Len(recs)]
    /\ query' = Unused
    /\ results' = <<>>
    /\ UNCHANGED <<dbVars, pc, cfg, dimension, utilVars>>

\* POST /query, from the request to the response
QueryKnowledgeBase ==
    /\ pc = "serving"
    /\ \E req \in QueryRequests, fail \in QueryFailures :
         LET embedded == ValidQuery(req) /\ fail \notin {"services", "embed"}
         IN  \E query_embedding \in IF embedded THEN Vectors ELSE {<<>>} :
             \E res \in IF ValidQuery(req) /\ fail = "none"
                        THEN PineconeQuery(index, query_embedding, req.top_k, NoFilter)
                        ELSE {<<>>} :
               /\ query' = [query |-> req.query, top_k |-> req.top_k,
                            filter |-> NoFilter, vector |-> query_embedding]
               /\ results' = res
               /\ calls' = IF ValidQuery(req)
                           THEN Trace(<<"services", "embed", "index">>, fail)
                           ELSE <<>>
               /\ response' =
                    IF QueryStatus(req, fail) # 200
                    THEN [op |-> "query", status |-> QueryStatus(req, fail)]
                    ELSE [op |-> "query", status |-> 200, query |-> req.query,
                          chunks |-> [i \in 1..Len(res) |->
                                         [text |-> res[i].text, score |-> res[i].score,
                                          metadata |-> res[i].metadata]]]
    /\ upload' = Unused
    /\ pdf_chunks' = <<>>
    /\ processed_chunks' = <<>>
    /\ chunk_texts' = <<>>
    /\ UNCHANGED <<dbVars, pc, cfg, index, dimension, next_id, utilVars>>

ServiceNext == UploadPdf \/ QueryKnowledgeBase

SpecService == ServiceInit /\ [][ServiceNext]_vars

\* the number of characters of s from its first to its last non-whitespace one
TrimmedLen(s) == Cardinality(Core(s))

\* C9: no chunk of trimmed length below 10 passes validation: every record
\* process_pdf returns, every text given to the embedding service and every
\* record of the index has a text of trimmed length at least 10
C9_NoShortChunkForwarded ==
    /\ \A j \in 1..Len(processed_chunks) : TrimmedLen(processed_chunks[j].text) >= 10
    /\ \A j \in 1..Len(chunk_texts) : TrimmedLen(chunk_texts[j]) >= 10
    /\ \A r \in index : TrimmedLen(r.metadata.text) >= 10

C9_Witness ==
    /\ response.op = "upload"
    /\ response.status = 200
    /\ \E j \in 1..Len(pdf_chunks) : TrimmedLen(pdf_chunks[j]) < 10
    /\ Len(chunk_texts) = Len(processed_chunks)
    /\ Len(processed_chunks) >= 2
    /\ Cardinality(index) >= 2

\* C10: PineconeService.query returns at most top_k results, highest score
\* first, and they are the top_k highest-scoring records of the index, each
\* with its own score, text and metadata
C10_TopKDescending ==
    (response.op = "query" /\ response.status = 200)
        => /\ Len(results) = Min(query.top_k, Cardinality(index))
           /\ \A i, j \in 1..Len(results) :
                  i < j => /\ results[i].score >= results[j].score
                           /\ results[i].id # results[j].id
           /\ \A i \in 1..Len(results) :
                  \E r \in index :
                      /\ r.id = results[i].id
                      /\ results[i].score = Score(query.vector, r.values)
                      /\ results[i].text = r.metadata.text
                      /\ results[i].metadata = r.metadata
           /\ \A r \in index :
                  (\A i \in 1..Len(results) : results[i].id # r.id)
                      => \A i \in 1..Len(results) :
                             Score(query.vector, r.values) <= results[i].score

C10_Witness ==
    /\ response.op = "query"
    /\ response.status = 200
    /\ query.top_k = 1
    /\ Cardinality(index) = 2
    /\ Len(results) = 1
    /\ \E r \in index : Score(query.vector, r.values) < results[1].score

(***************************************************************************)
(* Retrieval: POST /query, POST /retrieve and PineconeService.query on an  *)
(* index that holds the records of earlier uploads                         *)
(***************************************************************************)

\* the most records of the index that is queried
MaxIndexed == 3

\* the document of ServiceDocuments with three sentences
ThreeSentences == <<SentM \o <<" ">> \o SentS \o <<" ">> \o SentL>>

\* the metadata upload_pdf gives upsert_embeddings for a file
MetadataOf(filename, pages, c) ==
    LET recs == process_pdf(extract_text_from_pdf(pages), <<>>, filename, c)
    IN  [i \in 1..Len(recs) |-> WithText(recs[i])]

\* the metadata of the records uploads have written: two files of two chunks
RetrieveCorpus ==
    LET c == CHOOSE x \in ServiceConfigs : TRUE
    IN  MetadataOf(NameA, ThreeSentences, c) \o MetadataOf(NameB, ThreeSentences, c)

\* the indexes that are queried: records of the corpus, with any embeddings
RetrieveIndexes ==
    {{BuildVectors(e, RetrieveCorpus, 0)[i] : i \in keep} :
        e \in [1..Len(RetrieveCorpus) -> Vectors],
        keep \in {k \in SUBSET (1..Len(RetrieveCorpus)) : Cardinality(k) <= MaxIndexed}}

\* RetrieveRequest: query, pdf_id and top_k, none of them validated; pdf_id <<>>
\* is the pdf_id that is None or empty
RetrieveRequests == [query : {<<>>, <<"q">>}, pdf_id : {<<>>, NameA, NameB}, top_k : {0, 1, 2}]

\* retrieve_chunks: {"filename": request.pdf_id} if request.pdf_id else None
FilterOf(pdf_id) == IF pdf_id # <<>> THEN [filename |-> pdf_id] ELSE NoFilter

\* the arguments of a direct call of PineconeService.query
DirectTopK == {0, 1, 2}

DirectFilters == {NoFilter, [filename |-> NameA], [filename |-> NameB]}

RetrieveInit ==
    /\ pc = "serving"
    /\ cfg \in ServiceConfigs
    /\ upload = Unused
    /\ pdf_chunks = <<>>
    /\ processed_chunks = <<>>
    /\ chunk_texts = <<>>
    /\ index \in RetrieveIndexes
    /\ dimension = EMBEDDING_DIMENSION
    /\ next_id = Len(RetrieveCorpus)
    /\ query = Unused
    /\ results = <<>>
    /\ response = NoResponse
    /\ calls = <<>>
    /\ DbUnused
    /\ UtilUnused

\* POST /retrieve, from the request to the response
RetrieveChunks ==
    /\ pc = "serving"
    /\ \E req \in RetrieveRequests, fail \in QueryFailures :
         LET embedded == fail \notin {"services", "embed"}
             filter_dict == FilterOf(req.pdf_id)
         IN  \E query_embedding \in IF embedded THEN Vectors ELSE {<<>>} :
             \E res \in IF fail = "none"
                        THEN PineconeQuery(index, query_embedding, req.top_k, filter_dict)
                        ELSE {<<>>} :
               /\ query' = [query |-> req.query, top_k |-> req.top_k,
                            filter |-> filter_dict, vector |-> query_embedding]
               /\ results' = res
               /\ calls' = Trace(<<"services", "embed", "index">>, fail)
               /\ response' =
                    IF fail # "none" THEN [op |-> "retrieve", status |-> 500]
                    ELSE [op |-> "retrieve", status |-> 200,
                          chunks |-> [i \in 1..Len(res) |-> res[i].text]]
    /\ upload' = Unused
    /\ pdf_chunks' = <<>>
    /\ processed_chunks' = <<>>
    /\ chunk_texts' = <<>>
    /\ UNCHANGED <<dbVars, pc, cfg, index, dimension, next_id, utilVars>>

\* a call of PineconeService.query: it returns a list or raises
ServiceQuery ==
    /\ pc = "serving"
    /\ \E query_embedding \in Vectors, top_k \in DirectTopK,
          filter_dict \in DirectFilters, fail \in {"none", "index"} :
         \E res \in IF fail = "none"
                    THEN PineconeQuery(index, query_embedding, top_k, filter_dict)
                    ELSE {<<>>} :
           /\ query' = [query |-> <<>>, top_k |-> top_k,
                        filter |-> filter_dict, vector |-> query_embedding]
           /\ results' = res
           /\ calls' = Trace(<<"index">>, fail)
           /\ response' = [op |-> "PineconeService.query", status |-> 0,
                           raised |-> fail # "none"]
    /\ upload' = Unused
    /\ pdf_chunks' = <<>>
    /\ processed_chunks' = <<>>
    /\ chunk_texts' = <<>>
    /\ UNCHANGED <<dbVars, pc, cfg, index, dimension, next_id, utilVars>>

\* a retrieval leaves the index as it is, and its outcome depends on the index
\* and the request only: each request is the first on its index
FirstQuery == response = NoResponse /\ QueryKnowledgeBase

FirstRetrieve == response = NoResponse /\ RetrieveChunks

FirstServiceQuery == response = NoResponse /\ ServiceQuery

RetrieveNext == FirstQuery \/ FirstRetrieve \/ FirstServiceQuery

SpecRetrieve == RetrieveInit /\ [][RetrieveNext]_vars

\* the retrieval operations
IsRetrieval == response.op \in {"query", "retrieve", "PineconeService.query"}

\* the records of the index that pass the filter of the request
Matching == {r \in index : Passes(r, query.filter)}

\* C11: a retrieval with a filter on filename returns only chunks of records
\* with that filename, and they are the top_k highest-scoring records among
\* the matching ones, whatever the scores of the records that do not match
C11_FilterBeforeRanking ==
    (response.op = "retrieve" /\ response.status = 200 /\ DOMAIN query.filter # {})
        => /\ Len(results) = Min(query.top_k, Cardinality(Matching))
           /\ Len(response.chunks) = Len(results)
           /\ \A i \in 1..Len(results) :
                  /\ results[i].metadata.filename = query.filter.filename
                  /\ response.chunks[i] = results[i].text
                  /\ \E r \in Matching :
                         /\ r.id = results[i].id
                         /\ r.metadata = results[i].metadata
                         /\ results[i].score = Score(query.vector, r.values)
           /\ \A i, j \in 1..Len(results) :
                  i < j => /\ results[i].id # results[j].id
                           /\ results[i].score >= results[j].score
           /\ \A r \in Matching :
                  (\A i \in 1..Len(results) : results[i].id # r.id)
                      => \A i \in 1..Len(results) :
                             Score(query.vector, r.values) <= results[i].score

C11_Witness ==
    /\ response.op = "retrieve"
    /\ response.status = 200
    /\ DOMAIN query.filter # {}
    /\ query.top_k = 1
    /\ Len(results) = 1
    /\ Cardinality(Matching) = 2
    /\ \E r \in Matching : Score(query.vector, r.values) < results[1].score
    /\ \E r \in index \ Matching : Score(query.vector, r.values) > results[1].score

\* C12: when the index cannot be reached or index.query raises, the retrieval
\* ends in an error: PineconeService.query raises, the routes answer 5xx;
\* no list of results and no success response is returned
C12_IndexFailureIsError ==
    (IsRetrieval /\ \E i \in 1..Len(calls) :
                        calls[i].raised /\ calls[i].call \in {"services", "index"})
        => /\ results = <<>>
           /\ IF response.op = "PineconeService.query"
              THEN response.raised
              ELSE response.status >= 500 /\ response.status <= 599

C12_Witness ==
    /\ response.op \in {"query", "retrieve"}
    /\ Len(calls) = 3
    /\ calls[3].call = "index"
    /\ calls[3].raised
    /\ response.status = 500
    /\ index # {}

\* C13: a retrieval with top_k <= 0 fails with a validation error (4xx at the
\* HTTP boundary) and index.query is not called
C13_NonPositiveTopKRejected ==
    (IsRetrieval /\ query.top_k <= 0)
        => /\ \A i \in 1..Len(calls) : calls[i].call # "index"
           /\ IF response.op = "PineconeService.query"
              THEN response.raised
              ELSE response.status >= 400 /\ response.status <= 499

\* C14: a retrieval with an empty query text is answered 4xx by POST /query
\* and POST /retrieve, and neither the embedding service nor the index is called
C14_EmptyQueryRejected ==
    (response.op \in {"query", "retrieve"} /\ query.query = <<>>)
        => /\ calls = <<>>
           /\ response.status >= 400 /\ response.status <= 499

(***************************************************************************)
(* PineconeService.upsert_embeddings on what the embedding service and the *)
(* caller give it                                                          *)
(***************************************************************************)

\* the most embeddings and the most metadata of one call
MaxBatch == 2

\* the dimensions of the index _initialize connects to: it creates the index
\* with config.EMBEDDING_DIMENSION only when no index of that name exists
IndexDimensions == {EMBEDDING_DIMENSION - 1, EMBEDDING_DIMENSION}

\* the vectors an embedding model may return: of any of these dimensions (what
\* upsert_embeddings does with a vector does not depend on its components)
AnyVectors == UNION {[1..d -> {1}] : d \in IndexDimensions}

\* the lists of at most n elements of S
Lists(S, n) == UNION {[1..k -> S] : k \in 0..n}

UpsertInit ==
    /\ pc = "serving"
    /\ cfg \in ServiceConfigs
    /\ upload = Unused
    /\ pdf_chunks = <<>>
    /\ processed_chunks = <<>>
    /\ chunk_texts = <<>>
    /\ index = {}
    /\ dimension \in IndexDimensions
    /\ next_id = 0
    /\ query = Unused
    /\ results = <<>>
    /\ response = NoResponse
    /\ calls = <<>>
    /\ DbUnused
    /\ UtilUnused

\* upsert_embeddings without the comparison of the lengths: zip pairs the
\* embeddings and the metadata up to the shorter list
UpsertVectors_Zip(embeddings, metadata_list, first) ==
    LET n == Min(Len(embeddings), Len(metadata_list))
    IN  [error |-> "none",
         vectors |-> BuildVectors(SubSeq(embeddings, 1, n), SubSeq(metadata_list, 1, n),
                                  first)]

\* upsert_embeddings up to index.upsert: ValueError when the lengths differ,
\* else the vectors built
UpsertVectors(embeddings, metadata_list, first) ==
    IF Len(embeddings) # Len(metadata_list)
    THEN [error |-> "ValueError", vectors |-> <<>>]
    ELSE [error |-> "none", vectors |-> BuildVectors(embeddings, metadata_list, first)]

\* a call of PineconeService.upsert_embeddings: it returns or raises; the index
\* takes the vectors of a call together, and only vectors of its dimension
UpsertEmbeddings ==
    /\ pc = "serving"
    /\ \E embeddings \in Lists(AnyVectors, MaxBatch),
          metadata_list \in Lists({RetrieveCorpus[1], RetrieveCorpus[2]}, MaxBatch),
          fail \in {"none", "upsert"} :
         LET built == UpsertVectors(embeddings, metadata_list, next_id)
             matched == built.error = "none"
             vectors == built.vectors
             taken == /\ matched
                      /\ fail = "none"
                      /\ \A i \in 1..Len(vectors) : Len(vectors[i].values) = dimension
         IN  /\ taken => Cardinality(index) + Len(vectors) <= MaxRecords
             /\ index' = IF taken THEN IndexUpsert(index, vectors) ELSE index
             /\ next_id' = IF taken THEN next_id + Len(vectors) ELSE next_id
             /\ calls' = IF matched THEN Trace(<<"upsert">>, IF taken THEN "none" ELSE "upsert")
                         ELSE <<>>
             /\ query' = [embeddings |-> embeddings, metadata_list |-> metadata_list]
             /\ response' = [op |-> "PineconeService.upsert_embeddings", status |-> 0,
                             raised |-> ~taken,
                             error |-> IF ~matched THEN "ValueError"
                                       ELSE IF ~taken THEN "Exception" ELSE "none"]
    /\ results' = <<>>
    /\ upload' = Unused
    /\ pdf_chunks' = <<>>
    /\ processed_chunks' = <<>>
    /\ chunk_texts' = <<>>
    /\ UNCHANGED <<dbVars, pc, cfg, dimension, utilVars>>

UpsertNext == UpsertEmbeddings

SpecUpsert == UpsertInit /\ [][UpsertNext]_vars

\* C15: every record of the index has a vector of EMBEDDING_DIMENSION components
C15_VectorsHaveConfiguredDimension ==
    \A r \in index : Len(r.values) = EMBEDDING_DIMENSION

\* the step is a POST /upload-pdf that is answered 200
UploadSucceeds == response'.op = "upload" /\ response'.status = 200

\* C16: a successful upload of a document with N valid chunks adds exactly N
\* records to the index, the i-th with the metadata of chunk i and its text,
\* and answers chunks_processed = number_of_chunks = N; the text of every
\* query result is the text of a record of the index
C16_UploadAddsRecords ==
    /\ [][UploadSucceeds =>
            LET N == Len(processed_chunks')
                added == index' \ index
            IN  /\ N >= 1
                /\ index \subseteq index'
                /\ Cardinality(added) = N
                /\ \A i \in 1..N :
                       \E r \in added :
                           /\ r.id = next_id + i
                           /\ r.metadata.filename = processed_chunks'[i].metadata.filename
                           /\ r.metadata.chunk_index = processed_chunks'[i].metadata.chunk_index
                           /\ r.metadata.total_chunks = processed_chunks'[i].metadata.total_chunks
                           /\ r.metadata.source = processed_chunks'[i].metadata.source
                           /\ r.metadata.text = processed_chunks'[i].text
                           /\ DOMAIN r.metadata =
                                  DOMAIN processed_chunks'[i].metadata \cup {"text"}
                /\ response'.chunks_processed = N
                /\ response'.number_of_chunks = N]_vars
    /\ []((response.op = "query" /\ response.status = 200)
              => \A i \in 1..Len(results) :
                     \E r \in index : /\ r.id = results[i].id
                                      /\ results[i].text = r.metadata.text
                                      /\ response.chunks[i].text = r.metadata.text)

C16_Witness ==
    /\ response.op = "query"
    /\ response.status = 200
    /\ Len(results) = 2
    /\ results[1].text # results[2].text
    /\ results[1].metadata.total_chunks = 3

(***************************************************************************)
(* database/db.py, database/db_appwrite.py, services/chat_service.py,      *)
(* routes/sessions.py, routes/chat.py and POST /messages of main.py        *)
(***************************************************************************)

\* the most messages ever stored
MaxMessages == 2

\* the last time of the clock
MaxTime == 2

\* the history stores get_database may select
Backends == {"sqlite", "appwrite"}

\* a reading of the clock (datetime.now(), CURRENT_TIMESTAMP) after time t: the
\* clock does not go back, and two readings may fall in the same tick
Readings(t) == {u \in {t, t + 1} : u <= MaxTime}

\* the identifiers a request may name: of a session, of a deleted session, of none
SessionIds == {1, 2}

\* get_session: the stored session with this id, if any
SessionsWith(ss, session_id) == {x \in ss : x.id = session_id}

\* the stored messages of a session
MessagesOf(ms, session_id) == {m \in ms : m.session_id = session_id}

\* a session as create_session stores it; name, mode, pdf_id and created_at,
\* which no operation changes or reads again, are left out
Session(id, t) == [id |-> id, updated_at |-> t]

\* a message as save_message stores it
Message(id, session_id, message_type, t) ==
    [id |-> id, session_id |-> session_id, message_type |-> message_type, timestamp |-> t]

\* update_session_timestamp: updated_at of the session, if it is stored, is t
Refreshed(ss, session_id, t) ==
    {IF x.id = session_id THEN [x EXCEPT !.updated_at = t] ELSE x : x \in ss}

\* the arrangements of the elements of S in a list
Arrangements(S) ==
    {f \in [1..Cardinality(S) -> S] : \A i, j \in 1..Cardinality(S) : i # j => f[i] # f[j]}

\* get_all_sessions: ORDER BY updated_at DESC; sessions of equal updated_at
\* come in any order
NewestFirst(ss) ==
    {f \in Arrangements(ss) :
        \A i, j \in 1..Len(f) : i < j => f[i].updated_at >= f[j].updated_at}

\* get_chat_history: ORDER BY timestamp ASC; messages of equal timestamp come
\* in any order
OldestFirst(ms) ==
    {f \in Arrangements(ms) :
        \A i, j \in 1..Len(f) : i < j => f[i].timestamp <= f[j].timestamp}

\* the variables of the other operations while the history store is used
ChatOnly ==
    /\ cfg = Unused
    /\ upload = Unused
    /\ pdf_chunks = Unused
    /\ processed_chunks = Unused
    /\ chunk_texts = Unused
    /\ index = Unused
    /\ dimension = Unused

ChatInit ==
    /\ pc = "serving"
    /\ backend \in Backends
    /\ sessions = {}
    /\ messages = {}
    /\ now = 0
    /\ next_id = 0
    /\ query = Unused
    /\ results = <<>>
    /\ response = NoResponse
    /\ calls = <<>>
    /\ ChatOnly
    /\ UtilUnused

\* what every operation on the history store leaves as it is
ChatFrame == UNCHANGED <<pc, backend, cfg, upload, pdf_chunks, processed_chunks,
                         chunk_texts, index, dimension, utilVars>>

\* the identifiers uuid4 may still draw: those nothing stored carries
FreshIds(ss, ms) ==
    {i \in SessionIds : SessionsWith(ss, i) = {} /\ MessagesOf(ms, i) = {}}

\* POST /sessions
CreateSession ==
    /\ pc = "serving"
    /\ \E session_id \in FreshIds(sessions, messages),
          fail \in {"none", "create_session"}, t \in Readings(now) :
         /\ \A i \in FreshIds(sessions, messages) : session_id <= i
         /\ (fail # "none" => t = now)
         /\ now' = t
         /\ sessions' = IF fail = "none"
                        THEN sessions \cup {Session(session_id, t)}
                        ELSE sessions
         /\ query' = [session_id |-> session_id]
         /\ calls' = Trace(<<"create_session">>, fail)
         /\ response' = [op |-> "create_session",
                         status |-> IF fail = "none" THEN 200 ELSE 500]
    /\ results' = <<>>
    /\ UNCHANGED <<messages, next_id>>
    /\ ChatFrame

\* the roles POST /messages is called with
Roles == {"user"}

\* POST /messages: save_message, then update_session_timestamp, whose failure
\* the Appwrite store swallows
SaveMessageEndpoint ==
    /\ pc = "serving"
    /\ next_id < MaxMessages
    /\ \E session_id \in SessionIds, role \in Roles,
          fail \in {"none", "save_message", "update_session_timestamp"},
          t1 \in Readings(now) :
         \E t2 \in Readings(t1) :
           LET saved == fail # "save_message"
               updated == fail = "none"
           IN  /\ messages' = IF saved
                              THEN messages \cup {Message(next_id + 1, session_id, role, t1)}
                              ELSE messages
               /\ next_id' = IF saved THEN next_id + 1 ELSE next_id
               /\ sessions' = IF updated THEN Refreshed(sessions, session_id, t2)
                              ELSE sessions
               /\ now' = IF updated THEN t2 ELSE IF saved THEN t1 ELSE now
               /\ (~updated => t2 = t1)
               /\ (~saved => t1 = now)
               /\ query' = [session_id |-> session_id]
               /\ calls' = Trace(<<"save_message", "update_session_timestamp">>, fail)
               /\ response' = [op |-> "messages",
                               status |-> IF fail = "none" THEN 200
                                          ELSE IF saved /\ backend = "appwrite" THEN 200
                                          ELSE 500]
    /\ results' = <<>>
    /\ ChatFrame

\* POST /save-message: ChatService.save_conversation stores the question, then
\* the answer; it answers False when either save raises, and the route turns
\* that into a 500
SaveMessage ==
    /\ pc = "serving"
    /\ \E session_id \in SessionIds, fail \in {"none", "save_question", "save_answer"},
          t1 \in Readings(now) :
         \E t2 \in Readings(t1) :
           LET question == Message(next_id + 1, session_id, "user", t1)
               answer == Message(next_id + 2, session_id, "assistant", t2)
               stored == IF fail = "none" THEN {question, answer}
                         ELSE IF fail = "save_answer" THEN {question}
                         ELSE {}
           IN  /\ next_id + Cardinality(stored) <= MaxMessages
               /\ messages' = messages \cup stored
               /\ next_id' = next_id + Cardinality(stored)
               /\ now' = IF fail = "none" THEN t2 ELSE IF fail = "save_answer" THEN t1 ELSE now
               /\ (fail # "none" => t2 = t1)
               /\ (fail = "save_question" => t1 = now)
               /\ query' = [session_id |-> session_id]
               /\ calls' = Trace(<<"save_question", "save_answer">>, fail)
               /\ response' = [op |-> "save-message",
                               status |-> IF fail = "none" THEN 200 ELSE 500]
    /\ results' = <<>>
    /\ UNCHANGED sessions
    /\ ChatFrame

\* GET /sessions: get_all_sessions, ordered by updated_at, newest first
GetSessions ==
    /\ pc = "serving"
    /\ \E fail \in {"none", "get_all_sessions"} :
         /\ calls' = Trace(<<"get_all_sessions">>, fail)
         /\ IF fail = "none"
            THEN /\ results' \in NewestFirst(sessions)
                 /\ response' = [op |-> "get_sessions", status |-> 200]
            ELSE /\ results' = <<>>
                 /\ response' = [op |-> "get_sessions", status |-> 500]
    /\ query' = Unused
    /\ UNCHANGED <<sessions, messages, now, next_id>>
    /\ ChatFrame

\* a lookup that does not refuse a session that is not stored
LookupStatus_NoCheck(be, ss, session_id, fail) ==
    IF fail = "get_session"
    THEN IF be = "appwrite" THEN 404 ELSE 500
    ELSE 200

\* the answer of a route to a session lookup: the SQLite get_session lets an
\* error of the store through (500), the Appwrite one answers None for it (404)
LookupStatus(be, ss, session_id, fail) ==
    IF fail = "get_session"
    THEN IF be = "appwrite" THEN 404 ELSE 500
    ELSE IF SessionsWith(ss, session_id) = {} THEN 404 ELSE 200

\* GET /sessions/{session_id}/messages
GetSessionMessages ==
    /\ pc = "serving"
    /\ \E session_id \in SessionIds, fail \in {"none", "get_session", "get_chat_history"} :
         LET found == LookupStatus(backend, sessions, session_id, fail)
         IN  /\ query' = [session_id |-> session_id]
             /\ IF found # 200
                THEN /\ fail # "get_chat_history"
                     /\ calls' = Trace(<<"get_session">>, fail)
                     /\ results' = <<>>
                     /\ response' = [op |-> "get_session_messages", status |-> found]
                ELSE /\ calls' = Trace(<<"get_session", "get_chat_history">>, fail)
                     /\ IF fail = "none"
                        THEN /\ results' \in OldestFirst(MessagesOf(messages, session_id))
                             /\ response' = [op |-> "get_session_messages", status |-> 200]
                        ELSE /\ results' = <<>>
                             /\ response' = [op |-> "get_session_messages", status |-> 500]
    /\ UNCHANGED <<sessions, messages, now, next_id>>
    /\ ChatFrame

\* the steps of delete_session_and_messages that may fail
DeleteSteps(be) ==
    IF be = "appwrite"
    THEN {"delete_session", "list_messages", "delete_message"}
    ELSE {"delete_session_and_messages"}

\* the messages of the session the Appwrite store has deleted when deleting
\* one of them fails: some of the list ordered by timestamp, but not all
DeletedBefore(ms) ==
    {D \in SUBSET ms :
        /\ D # ms
        /\ \A d \in D, m \in ms \ D : d.timestamp <= m.timestamp}

\* DELETE /sessions/{session_id}: the SQLite store deletes the messages and the
\* session in one transaction; the Appwrite store deletes the session, lists
\* its messages and deletes them one by one, and answers False when a step
\* raises, which the route does not look at
DeleteSession ==
    /\ pc = "serving"
    /\ \E session_id \in SessionIds,
          fail \in {"none", "get_session"} \cup DeleteSteps(backend) :
         LET found == LookupStatus(backend, sessions, session_id, fail)
             mine == MessagesOf(messages, session_id)
             without == sessions \ SessionsWith(sessions, session_id)
         IN  /\ query' = [session_id |-> session_id]
             /\ IF found # 200
                THEN /\ fail \in {"none", "get_session"}
                     /\ calls' = Trace(<<"get_session">>, fail)
                     /\ response' = [op |-> "delete_session", status |-> found]
                     /\ UNCHANGED <<sessions, messages>>
                ELSE IF backend = "sqlite"
                THEN /\ calls' = Trace(<<"get_session", "delete_session_and_messages">>, fail)
                     /\ response' = [op |-> "delete_session",
                                     status |-> IF fail = "none" THEN 200 ELSE 500]
                     /\ sessions' = IF fail = "none" THEN without ELSE sessions
                     /\ messages' = IF fail = "none" THEN messages \ mine ELSE messages
                ELSE /\ calls' = Trace(<<"get_session", "delete_session", "list_messages",
                                         "delete_message">>, fail)
                     /\ response' = [op |-> "delete_session", status |-> 200]
                     /\ sessions' = IF fail = "delete_session" THEN sessions ELSE without
                     /\ \/ /\ fail = "none"
                           /\ messages' = messages \ mine
                        \/ /\ fail \in {"delete_session", "list_messages"}
                           /\ messages' = messages
                        \/ /\ fail = "delete_message"
                           /\ \E D \in DeletedBefore(mine) : messages' = messages \ D
    /\ results' = <<>>
    /\ UNCHANGED <<now, next_id>>
    /\ ChatFrame

\* DELETE /chat-history/{session_id}: ChatService.delete_session_history calls
\* db.delete_session, which only the SQLite store has (with the Appwrite store
\* the call raises AttributeError), and answers 0 for every exception
DeleteChatHistory ==
    /\ pc = "serving"
    /\ \E session_id \in SessionIds, fail \in {"none", "delete_session"} :
         LET mine == MessagesOf(messages, session_id)
             deleted == fail = "none"
         IN  /\ backend = "appwrite" => fail = "delete_session"
             /\ query' = [session_id |-> session_id]
             /\ calls' = Trace(<<"delete_session">>, fail)
             /\ messages' = IF deleted THEN messages \ mine ELSE messages
             /\ response' = [op |-> "delete_chat_history", status |-> 200,
                             deleted_count |-> IF deleted THEN Cardinality(mine) ELSE 0]
    /\ results' = <<>>
    /\ UNCHANGED <<sessions, now, next_id>>
    /\ ChatFrame

ChatNext ==
    \/ CreateSession
    \/ SaveMessageEndpoint
    \/ SaveMessage
    \/ GetSessions
    \/ GetSessionMessages
    \/ DeleteSession
    \/ DeleteChatHistory

SpecChat == ChatInit /\ [][ChatNext]_vars

\* the timestamps of the messages stored for a session
TimestampsOf(ms, session_id) == {m.timestamp : m \in MessagesOf(ms, session_id)}

\* an operation has stored a message for this session and reported success
StoresMessageFor(session_id) ==
    /\ response'.op \in {"messages", "save-message"}
    /\ response'.status = 200
    /\ MessagesOf(messages', session_id) \ messages # {}

\* C17: every operation that stores a new message for a session that exists
\* (POST /messages, POST /save-message) leaves the session with an updated_at
\* not earlier than the timestamp of its newest message, and GET /sessions
\* lists a session whose newest message is more recent before a session whose
\* newest message is older.
C17_MessageRefreshesSession ==
    /\ [][\A x \in sessions :
            StoresMessageFor(x.id) =>
                \A y \in SessionsWith(sessions', x.id) :
                    \A t \in TimestampsOf(messages', x.id) : y.updated_at >= t]_vars
    /\ [](response.op = "get_sessions" /\ response.status = 200 =>
            \A i, j \in 1..Len(results) :
                i < j =>
                    \A ti \in TimestampsOf(messages, results[i].id) :
                        \A tj \in TimestampsOf(messages, results[j].id) :
                            \E ui \in TimestampsOf(messages, results[i].id) : ui >= tj)

\* a step of delete_session_and_messages has raised in the last operation
DeletionFailed ==
    \E i \in 1..Len(calls) : calls[i].raised /\ calls[i].call \in DeleteSteps(backend)

\* C18: whenever DELETE /sessions/{session_id} reports success, with either
\* backend, neither the session nor a message with that session_id is stored;
\* a failure part-way through the deletion is not reported as success and
\* does not leave messages of a session that is no longer stored.
C18_DeleteSessionIsComplete ==
    response.op = "delete_session" =>
        /\ response.status = 200 =>
               /\ SessionsWith(sessions, query.session_id) = {}
               /\ MessagesOf(messages, query.session_id) = {}
        /\ DeletionFailed =>
               /\ response.status # 200
               /\ SessionsWith(sessions, query.session_id) = {} =>
                      MessagesOf(messages, query.session_id) = {}

\* a route has looked a session up that is not stored, and the store has
\* answered the lookup
UnknownSessionLookedUp ==
    /\ response'.op \in {"get_session_messages", "delete_session"}
    /\ SessionsWith(sessions, query'.session_id) = {}
    /\ ~calls'[1].raised

\* C19: GET /sessions/{session_id}/messages and DELETE /sessions/{session_id}
\* for a session_id that is not stored answer 404 (when the store answers the
\* lookup) and leave the sessions and the messages as they were; messages
\* stored under that session_id are not deleted.
C19_UnknownSessionNotFound ==
    [][UnknownSessionLookedUp =>
          /\ response'.status = 404
          /\ sessions' = sessions
          /\ messages' = messages]_vars

\* DELETE for a session_id that is not stored but has a message: 404, and the
\* message is still there
C19_Witness ==
    /\ response.op = "delete_session"
    /\ response.status = 404
    /\ ~calls[1].raised
    /\ SessionsWith(sessions, query.session_id) = {}
    /\ MessagesOf(messages, query.session_id) # {}

(***************************************************************************)
(* process_pdf on a short extracted text                                   *)
(***************************************************************************)

\* the texts of ocr_pdf_page that process_pdf takes
TakenOcrTexts == {o \in OcrOutcomes : o # <<>> /\ Len(Strip(o)) > OcrMinLength}

\* extraction has given some text, but fewer characters than OcrThreshold
ShortExtraction(raw_text) == raw_text # <<>> /\ Len(Strip(raw_text)) < OcrThreshold

\* C20: when extraction gives a short text (non-empty, fewer than 50
\* characters after trimming), process_pdf returns the records of an OCR text
\* it takes or, when OCR fails or gives 20 characters or fewer, the records
\* of the extracted text, cleaned and chunked; it does not end empty.
C20_ShortTextIsUsed ==
    LET raw_text == extract_text_from_pdf(upload.pages)
        expected == Assemble(ChunksOf(raw_text, cfg), upload.filename)
    IN  pc = "pdf_done" /\ ShortExtraction(raw_text) =>
            \/ processed_chunks = expected /\ expected # <<>>
            \/ \E o \in TakenOcrTexts :
                   processed_chunks = Assemble(ChunksOf(o, cfg), upload.filename)

(***************************************************************************)
(* POST /upload-pdf: what is refused, and what an upload leaves behind     *)
(***************************************************************************)

\* the name of the file does not end in .pdf, or the file is too large
NotPdfOrTooLarge(file) ==
    \/ ~IsSuffix(<<".", "p", "d", "f">>, file.filename)
    \/ file.size > MAX_FILE_SIZE

\* a status of the 4xx class
Is4xx(status) == status >= 400 /\ status <= 499

\* a status of the 5xx class
Is5xx(status) == status >= 500 /\ status <= 599

\* C21: POST /upload-pdf answers 4xx to every file whose name does not end in
\* .pdf and to every file larger than MAX_FILE_SIZE, and such an upload has no
\* effect: no service is called (nothing saved, extracted or embedded) and
\* the index is unchanged.
C21_RejectedUploadHasNoEffect ==
    [][response'.op = "upload" /\ NotPdfOrTooLarge(upload') =>
          /\ Is4xx(response'.status)
          /\ calls' = <<>>
          /\ processed_chunks' = <<>>
          /\ chunk_texts' = <<>>
          /\ index' = index]_vars

\* an oversize PDF was refused while the index holds records
C21_Witness ==
    /\ response.op = "upload"
    /\ response.status = 400
    /\ upload.size > MAX_FILE_SIZE
    /\ IsSuffix(<<".", "p", "d", "f">>, upload.filename)
    /\ index # {}
    /\ calls = <<>>

\* the last upload ended at process_pdf: the extractor raised, or process_pdf
\* returned no chunk
ExtractionFailed ==
    /\ response.op = "upload"
    /\ Len(calls) = 3
    /\ calls[3].call = "extract"
    /\ calls[3].raised \/ processed_chunks = <<>>

\* C22: POST /upload-pdf answers a validation failure (not a PDF, oversize)
\* with a 4xx status and an extraction failure (process_pdf returned no
\* chunk, or the extractor raised) with a 5xx status.
C22_ExtractionFailureIs5xx ==
    /\ response.op = "upload" /\ NotPdfOrTooLarge(upload) => Is4xx(response.status)
    /\ ExtractionFailed => Is5xx(response.status)

(***************************************************************************)
(* POST /upload-pdf: several uploads at once on one index                  *)
(***************************************************************************)

\* the requests served at the same time
Uploaders == {1, 2}

\* what process_pdf returns for the accepted files that have text
UploadedRecords ==
    {p.records : p \in {q \in Processed : ~Rejected(q.file) /\ q.records # <<>>}}

\* upload[u] is the request u: the records process_pdf returned, how far
\* upload_pdf has come, the vectors upsert_embeddings has built
UploadsInit ==
    /\ pc = "serving"
    /\ cfg \in ServiceConfigs
    /\ upload \in [Uploaders -> [records : UploadedRecords, stage : {"processed"},
                                 vectors : {<<>>}, status : {0}]]
    /\ pdf_chunks = <<>>
    /\ processed_chunks = <<>>
    /\ chunk_texts = <<>>
    /\ index = {}
    /\ dimension = EMBEDDING_DIMENSION
    /\ next_id = 0
    /\ query = Unused
    /\ results = <<>>
    /\ response = NoResponse
    /\ calls = <<>>
    /\ DbUnused
    /\ UtilUnused

UploadsFrame ==
    UNCHANGED <<dbVars, pc, cfg, pdf_chunks, processed_chunks, chunk_texts, dimension,
                query, results, response, calls, utilVars>>

\* upload_pdf of request u: generate_embeddings_batch, then the vectors of
\* upsert_embeddings, each under a fresh uuid4
UploadBuild(u) ==
    /\ upload[u].stage = "processed"
    /\ \E fail \in {"none", "embed"} :
         LET recs == upload[u].records
             metadata_list == [i \in 1..Len(recs) |-> WithText(recs[i])]
         IN  IF fail = "embed"
             THEN /\ upload' = [upload EXCEPT ![u].stage = "done", ![u].status = 500]
                  /\ UNCHANGED next_id
             ELSE \E embeddings \in [1..Len(recs) -> {[d \in 1..EMBEDDING_DIMENSION |-> 1]}] :
                  /\ upload' = [upload EXCEPT
                                   ![u].stage = "built",
                                   ![u].vectors =
                                       BuildVectors(embeddings, metadata_list, next_id)]
                  /\ next_id' = next_id + Len(recs)
    /\ UNCHANGED index
    /\ UploadsFrame

\* upload_pdf of request u: index.upsert(vectors) and the response
UploadUpsert(u) ==
    /\ upload[u].stage = "built"
    /\ \E fail \in {"none", "upsert"} :
         IF fail = "upsert"
         THEN /\ upload' = [upload EXCEPT ![u].stage = "done", ![u].status = 500]
              /\ UNCHANGED index
         ELSE /\ upload' = [upload EXCEPT ![u].stage = "done", ![u].status = 200]
              /\ index' = IndexUpsert(index, upload[u].vectors)
    /\ UNCHANGED next_id
    /\ UploadsFrame

UploadsNext == \E u \in Uploaders : UploadBuild(u) \/ UploadUpsert(u)

SpecUploads == UploadsInit /\ [][UploadsNext]_vars

\* the identifiers of the records of an index
IdsOf(ix) == {r.id : r \in ix}

\* the records of the index written by request u
WrittenBy(u) == {r \in index : \E i \in 1..Len(upload[u].vectors) : upload[u].vectors[i] = r}

\* C23: under any interleaving of uploads, every vector an upload writes has
\* an identifier that no record of the index has, and no record is removed
\* or replaced; once all uploads have completed, each successful upload has
\* as many records in the index as process_pdf returned for it, and the index
\* holds nothing else.
C23_UploadsDoNotOverwrite ==
    /\ [][\A u \in Uploaders :
            upload[u].stage = "built" /\ upload'[u].status = 200 =>
                /\ \A i \in 1..Len(upload[u].vectors) : upload[u].vectors[i].id \notin IdsOf(index)
                /\ index \subseteq index']_vars
    /\ []((\A u \in Uploaders : upload[u].stage = "done") =>
            /\ \A u \in Uploaders :
                   upload[u].status = 200 =>
                       Cardinality(WrittenBy(u)) = Len(upload[u].records)
            /\ \A r \in index :
                   \E u \in Uploaders : upload[u].status = 200 /\ r \in WrittenBy(u))

\* two uploads of the same document have completed, and the index holds the
\* records of both
C23_Witness ==
    /\ \A u \in Uploaders : upload[u].stage = "done" /\ upload[u].status = 200
    /\ upload[1].records = upload[2].records
    /\ Len(upload[1].records) = 2
    /\ Cardinality(index) = 4

(***************************************************************************)
(* chunk_text: what one iteration of the loop does                         *)
(***************************************************************************)

\* the loop of chunk_text takes the sentence sentences[si] in this step
TakesSentence == pc = "chunk_loop" /\ si <= Len(sentences) /\ si' = si + 1

\* the step closes the running chunk: it is trimmed and added to the chunks
ClosesChunk == chunks' = Append(chunks, Strip(current_chunk))

\* the sentence closes the running chunk exactly when the running chunk is not
\* empty and does not take the sentence within max_chars, and the next
\* running chunk starts with the overlap, if there is one, and the sentence
ClosesWhenOverBudget ==
    /\ ClosesChunk <=>
           (current_chunk # <<>> /\ Len(current_chunk) + Len(sentences[si]) > max_chars)
    /\ ~ClosesChunk => chunks' = chunks
    /\ ClosesChunk =>
           current_chunk' =
               IF overlap_chars > 0 /\ Len(current_chunk) > overlap_chars
               THEN Tail_(current_chunk, overlap_chars) \o <<" ">> \o sentences[si]
               ELSE sentences[si]

\* C24 as stated: a sentence closes the running chunk exactly when the chunk
\* is non-empty and len(chunk) + len(sentence) > max_chars; the next running
\* chunk is then the last overlap_chars characters of the closed chunk, a
\* space and the sentence, or the sentence alone; a sentence that does not
\* close the chunk is appended to it after a single space
C24_Original ==
    [][TakesSentence =>
          /\ ClosesWhenOverBudget
          /\ ~ClosesChunk => current_chunk' = current_chunk \o <<" ">> \o sentences[si]]_vars

\* C24 amended: as stated, but a sentence that does not close the chunk is
\* appended after a single space only to a running chunk that is not empty;
\* it becomes the running chunk, with no space before it, when the running
\* chunk is empty
C24_LoopStep ==
    [][TakesSentence =>
          /\ ClosesWhenOverBudget
          /\ ~ClosesChunk =>
                 current_chunk' = IF current_chunk # <<>>
                                  THEN current_chunk \o <<" ">> \o sentences[si]
                                  ELSE sentences[si]]_vars

\* the loop has closed a chunk longer than overlap_chars with the sentence
\* before this one, and has appended a sentence to a running chunk before
C24_Witness ==
    /\ pc = "chunk_loop"
    /\ si > 3
    /\ overlap_chars > 0
    /\ closed # <<>>
    /\ Len(groups[1]) >= 2
    /\ Len(closed[Len(closed)]) > overlap_chars
    /\ current_chunk = Tail_(closed[Len(closed)], overlap_chars) \o <<" ">> \o sentences[si - 1]

(***************************************************************************)
(* process_pdf: chunk_index and total_chunks of the records                *)
(***************************************************************************)

\* C25: all records of a result of process_pdf carry the same total_chunks T,
\* their chunk_index values are strictly increasing in emission order, and
\* each is at least 0 and less than T.
C25_IndexWithinTotal ==
    pc = "pdf_done" =>
        /\ \A i, j \in 1..Len(processed_chunks) :
               processed_chunks[i].metadata.total_chunks
                   = processed_chunks[j].metadata.total_chunks
        /\ \A i, j \in 1..Len(processed_chunks) :
               i < j => processed_chunks[i].metadata.chunk_index
                            < processed_chunks[j].metadata.chunk_index
        /\ \A i \in 1..Len(processed_chunks) :
               /\ processed_chunks[i].metadata.chunk_index >= 0
               /\ processed_chunks[i].metadata.chunk_index
                      < processed_chunks[i].metadata.total_chunks

\* a result of two or more records from which the last chunk and another
\* chunk were left out
C25_Witness ==
    /\ pc = "pdf_done"
    /\ Len(processed_chunks) >= 2
    /\ Len(pdf_chunks) > Len(processed_chunks)
    /\ processed_chunks[Len(processed_chunks)].metadata.chunk_index
           >= Len(processed_chunks)

(***************************************************************************)
(* The history store: deleting a history, orphans, order, conversations    *)
(***************************************************************************)

\* C26: DELETE /chat-history/{session_id}, with either backend, leaves no
\* message of that session stored, reports as deleted_count the number of
\* messages the session had before the call, and leaves the messages of
\* other sessions as they were.
C26_DeleteHistoryDeletesAll ==
    [][response'.op = "delete_chat_history" =>
          /\ MessagesOf(messages', query'.session_id) = {}
          /\ response'.deleted_count = Cardinality(MessagesOf(messages, query'.session_id))
          /\ messages' \ MessagesOf(messages', query'.session_id)
                 = messages \ MessagesOf(messages, query'.session_id)]_vars

\* C27: after any sequence of session creations, message saves and
\* deletions, every stored message's session_id is the id of a stored
\* session.
C27_NoOrphanMessages ==
    \A m \in messages : SessionsWith(sessions, m.session_id) # {}

\* C28: get_chat_history(session_id) returns the messages of the session in
\* the order in which they were saved (identifiers are drawn in that order),
\* so the question of a conversation comes before its answer, also when
\* messages were saved within one tick of the clock.
C28_HistoryInSaveOrder ==
    response.op = "get_session_messages" /\ response.status = 200 =>
        \A i, j \in 1..Len(results) : i < j => results[i].id < results[j].id

\* the messages POST /save-message has stored in this step
StoredByConversation == messages' \ messages

\* C29: POST /save-message is all-or-nothing: when it reports failure neither
\* the question nor the answer of the request is stored, and when it reports
\* success both are.
C29_ConversationAllOrNothing ==
    [][response'.op = "save-message" =>
          IF response'.status = 200
          THEN /\ \E m \in StoredByConversation : m.message_type = "user"
               /\ \E m \in StoredByConversation : m.message_type = "assistant"
          ELSE StoredByConversation = {}]_vars

(***************************************************************************)
(* upsert_embeddings on lists of different lengths                         *)
(***************************************************************************)

\* C30: upsert_embeddings called with embeddings and metadata of different
\* lengths raises ValueError before a vector is built (no identifier is
\* drawn, index.upsert is not called) and leaves the index unchanged.
C30_LengthMismatchRaises ==
    [][(/\ response'.op = "PineconeService.upsert_embeddings"
        /\ Len(query'.embeddings) # Len(query'.metadata_list)) =>
          /\ response'.raised
          /\ response'.error = "ValueError"
          /\ calls' = <<>>
          /\ next_id' = next_id
          /\ index' = index]_vars

\* two embeddings and one metadata were given while the index held records
C30_Witness ==
    /\ response.op = "PineconeService.upsert_embeddings"
    /\ response.error = "ValueError"
    /\ Len(query.embeddings) = 2
    /\ Len(query.metadata_list) = 1
    /\ index # {}

====
